---- MODULE Spec2Model ----
(***************************************************************************)
(* The messaging notification / audit pipeline of                          *)
(* Django-signals_orm-0x04/messaging: the tables of models.py, the signal  *)
(* handlers of signals.py and the views of views.py that write to them.    *)
(*                                                                         *)
(* A request is one action.  Its handler is translated statement by        *)
(* statement into a chain of store writes over a context                   *)
(*   [db, log, budget, failed]                                             *)
(* where db is the store, log the writes committed so far by the request,  *)
(* budget the number of writes the store still accepts before it raises    *)
(* (-1: it never raises) and failed whether an exception is propagating.   *)
(* Outside transaction.atomic every write is committed on its own          *)
(* (autocommit); inside it a failure restores the store.                   *)
(***************************************************************************)
EXTENDS Integers, Sequences, FiniteSets, TLC

VARIABLES
    users, messages, history, notifications, events,  \* the tables
    next,      \* each table's next primary key
    ops,       \* the writes the last request committed, in order
    outcome,   \* how the last request ended ("running": it has not yet)
    faults,    \* how many times the store has raised
    reply,     \* the send_reply request that is looking for its thread's root
    response,  \* the thread in the last response; <<>> when it carried none
    cache,     \* django.core.cache: the unread counts the views have kept
    limiter,   \* chats/middleware.py: the rate limiter and its requests
    retry,     \* 3-retry_on_failure.py: a call of the wrapper
    pager      \* 2-lazy_paginate.py: the generator, its table and its consumer

vars == <<users, messages, history, notifications, events, next, ops, outcome, faults,
          reply, response, cache, limiter, retry, pager>>

\* The messaging pipeline, and the other programs of the repository; each
\* specification below runs one program and leaves the others at rest.
messaging == <<users, messages, history, notifications, events, next, ops, outcome,
               faults, reply, response, cache>>
AtRest(program) == program = <<>>

\* Bounds of the model: how many primary keys each table may ever hand out.
MaxUsers == 2
MaxMessages == 2
MaxHistory == 1
MaxEvents == 4
\* A run is followed until the store has raised this many times.
MaxFaults == 1
\* How many messages a store holds whose parent links are arbitrary.
MaxThread == 3

\* The values an edit may give a message. The code never looks into a subject
\* or a content, it only compares the stored one with the new one, so a new
\* message always starts with the first of each.
Contents == {"hi", "hello"}
Subjects == {"s1", "s2"}
NewContents == {"hi"}
NewSubjects == {"s1"}

NULL == 0

Tables == {"users", "messages", "history", "notifications", "events"}

------------------------------------------------------------------------------
\* The store and its writes

Cur ==
    [users |-> users, messages |-> messages, history |-> history,
     notifications |-> notifications, events |-> events, next |-> next]

Ids(rows) == {r.id : r \in rows}

\* A request against a store that never raises, and against one that accepts
\* k writes and raises at the next.
Begin(S) == [db |-> S, log |-> <<>>, budget |-> -1, failed |-> FALSE]
BeginFaulty(S, k) == [db |-> S, log |-> <<>>, budget |-> k, failed |-> FALSE]

\* One write against the store: it raises when the store's budget is used up,
\* and is skipped when an exception is already propagating.
Do(C, w, S2) ==
    IF C.failed THEN C
    ELSE IF C.budget = 0 THEN [C EXCEPT !.failed = TRUE]
    ELSE [db |-> S2, log |-> Append(C.log, w),
          budget |-> IF C.budget > 0 THEN C.budget - 1 ELSE C.budget,
          failed |-> FALSE]

\* Model.objects.create / the INSERT of Model.save: the row gets the table's
\* next primary key.
Insert(C, table, fields) ==
    LET row == [fields EXCEPT !.id = C.db.next[table]]
    IN Do(C, [op |-> "insert", table |-> table, rows |-> {row}],
          [C.db EXCEPT ![table] = @ \cup {row}, !.next[table] = @ + 1])

\* The UPDATE of Model.save: the stored row with the same primary key is replaced.
Update(C, table, row) ==
    Do(C, [op |-> "update", table |-> table, rows |-> {row}],
       [C.db EXCEPT ![table] = {r \in @ : r.id # row.id} \cup {row}])

\* A DELETE of a set of rows; no query is issued for an empty set.
Delete(C, table, rows) ==
    IF rows = {} THEN C
    ELSE Do(C, [op |-> "delete", table |-> table, rows |-> rows],
            [C.db EXCEPT ![table] = @ \ rows])

\* transaction.atomic: a failure inside the block restores the store as it was
\* when the block was entered, and the exception propagates.
Atomic(C0, C1) ==
    IF C1.failed /\ ~C0.failed THEN [C0 EXCEPT !.failed = TRUE] ELSE C1

------------------------------------------------------------------------------
\* models.py: rows and the foreign keys' on_delete rules

User(id) == [id |-> id]

Message(sender, receiver, parent_message, subject, content) ==
    [id |-> NULL, sender |-> sender, receiver |-> receiver,
     parent_message |-> parent_message, subject |-> subject, content |-> content,
     is_read |-> FALSE, edited |-> FALSE]

MessageHistory(message, old_content, old_subject, edited_by) ==
    [id |-> NULL, message |-> message, old_content |-> old_content,
     old_subject |-> old_subject, edited_by |-> edited_by]

Notification(user, notification_type, message) ==
    [id |-> NULL, user |-> user, notification_type |-> notification_type,
     message |-> message]

EventLog(event_type, related_user, metadata) ==
    [id |-> NULL, event_type |-> event_type, related_user |-> related_user,
     metadata |-> metadata]

\* Message.parent_message, on_delete=CASCADE: the ids of the messages msgIds and
\* of every reply below them.
RECURSIVE Replies(_, _)
Replies(S, msgIds) ==
    LET below == {m.id : m \in {x \in S.messages : x.parent_message \in msgIds}}
    IN IF below \subseteq msgIds THEN msgIds ELSE Replies(S, msgIds \cup below)

\* Message.sender and Message.receiver, on_delete=CASCADE.
MessageCascade(S, userIds) ==
    {m.id : m \in {x \in S.messages : x.sender \in userIds \/ x.receiver \in userIds}}

\* MessageHistory.message with on_delete=DO_NOTHING: no history row is collected.
HistoryNoCascade(S, msgIds) == {}

\* MessageHistory.message, on_delete=CASCADE.
HistoryCascade(S, msgIds) == {h \in S.history : h.message \in msgIds}

\* Notification.user and Notification.message, on_delete=CASCADE.
NotificationCascade(S, userIds, msgIds) ==
    {n \in S.notifications : n.user \in userIds \/ n.message \in msgIds}

\* EventLog.related_user, on_delete=CASCADE.
EventLogCascade(S, userIds) == {e \in S.events : e.related_user \in userIds}

\* What deleting the users userIds and the messages msgIds takes with it.
Collect(S, userIds, msgIds) ==
    LET mids == Replies(S, msgIds \cup MessageCascade(S, userIds))
        hist == HistoryCascade(S, mids)
    IN [users |-> {u \in S.users : u.id \in userIds},
        messages |-> {m \in S.messages : m.id \in mids},
        history |-> hist,
        notifications |-> NotificationCascade(S, userIds, mids),
        events |-> EventLogCascade(S, userIds),
        \* MessageHistory.edited_by, on_delete=SET_NULL
        set_null |-> {h \in S.history \ hist : h.edited_by \in userIds}]

\* The number a delete() call returns first: every row it removed.
Deleted(col) ==
    Cardinality(col.users) + Cardinality(col.messages) + Cardinality(col.history)
    + Cardinality(col.notifications) + Cardinality(col.events)

RECURSIVE SetNull(_, _)
SetNull(C, rows) ==
    IF rows = {} THEN C
    ELSE LET h == CHOOSE r \in rows : \A q \in rows : r.id <= q.id
         IN SetNull(Update(C, "history", [h EXCEPT !.edited_by = NULL]), rows \ {h})

\* The deletion of a collection: the dependent rows first, then the rows they
\* depend on, all in one transaction. The post_delete receivers run after it.
DeleteCollected(C, col) ==
    LET C1 == Delete(C, "history", col.history)
        C2 == Delete(C1, "notifications", col.notifications)
        C3 == Delete(C2, "events", col.events)
        C4 == SetNull(C3, col.set_null)
        C5 == Delete(C4, "messages", col.messages)
    IN Delete(C5, "users", col.users)

------------------------------------------------------------------------------
\* signals.py

\* post_save of User
log_user_created_or_updated(C, instance, created) ==
    Insert(C, "events",
           EventLog(IF created THEN "user_created" ELSE "user_updated", instance.id,
                    [username |-> instance.id]))

\* post_delete of User
cleanup_user_data(C, instance) ==
    LET user_id == instance.id
        \* MessageHistory.objects.filter(message__sender_id=user_id).delete()[0]
        hist == {h \in C.db.history :
                    \E m \in C.db.messages : m.id = h.message /\ m.sender = user_id}
        message_history_count == Cardinality(hist)
        C1 == Delete(C, "history", hist)
        \* Message.objects.filter(sender_id=user_id).delete()[0]
        sent == Collect(C1.db, {}, {m.id : m \in {x \in C1.db.messages : x.sender = user_id}})
        messages_sent_count == Deleted(sent)
        C2 == DeleteCollected(C1, sent)
        \* Message.objects.filter(receiver_id=user_id).delete()[0]
        received == Collect(C2.db, {},
                            {m.id : m \in {x \in C2.db.messages : x.receiver = user_id}})
        messages_received_count == Deleted(received)
        C3 == DeleteCollected(C2, received)
        \* Notification.objects.filter(user_id=user_id).delete()[0]
        notifs == {n \in C3.db.notifications : n.user = user_id}
        notifications_count == Cardinality(notifs)
        C4 == Delete(C3, "notifications", notifs)
        total_items_deleted == message_history_count + messages_sent_count
                               + messages_received_count + notifications_count
    IN Insert(C4, "events",
              EventLog("user_deleted", NULL,
                       [username |-> user_id, user_id |-> user_id,
                        deleted_message_histories |-> message_history_count,
                        deleted_messages_sent |-> messages_sent_count,
                        deleted_messages_received |-> messages_received_count,
                        deleted_notifications |-> notifications_count,
                        total_deleted |-> total_items_deleted]))

\* The flag set on every save of a stored message, changed or not.
EditedInstanceOnEverySave(S, instance) ==
    IF \E old \in S.messages : old.id = instance.id
    THEN [instance EXCEPT !.edited = TRUE]
    ELSE instance

\* The flag set only when the content differs, as the snapshot is taken.
EditedInstanceOnContentChange(S, instance) ==
    IF \E old \in S.messages : old.id = instance.id
    THEN LET old_instance == CHOOSE old \in S.messages : old.id = instance.id
         IN IF old_instance.content # instance.content
            THEN [instance EXCEPT !.edited = TRUE]
            ELSE instance
    ELSE instance

\* The in-memory instance after the pre_save receiver: edited is set when the
\* stored content or subject differs from the instance's.
EditedInstance(S, instance) ==
    IF \E old \in S.messages : old.id = instance.id
    THEN LET old_instance == CHOOSE old \in S.messages : old.id = instance.id
         IN IF old_instance.content # instance.content
               \/ old_instance.subject # instance.subject
            THEN [instance EXCEPT !.edited = TRUE]
            ELSE instance
    ELSE instance

\* The receiver with the snapshot taken on any change, of the subject as well.
log_message_edit_any_change(C, instance) ==
    IF \E old \in C.db.messages : old.id = instance.id
    THEN LET old_instance == CHOOSE old \in C.db.messages : old.id = instance.id
         IN IF old_instance.content # instance.content
               \/ old_instance.subject # instance.subject
            THEN LET C1 == Insert(C, "history",
                                  MessageHistory(instance.id, old_instance.content,
                                                 old_instance.subject, instance.sender))
                 IN Insert(C1, "events",
                           EventLog("user_updated", instance.sender,
                                    [message_id |-> instance.id,
                                     old_subject |-> old_instance.subject,
                                     new_subject |-> instance.subject]))
            ELSE C
    ELSE C

\* The receiver taking a message that is not stored for one with empty content
\* and subject: it snapshots and logs the first save as well.
log_message_edit_on_create(C, instance) ==
    IF \E old \in C.db.messages : old.id = instance.id
    THEN log_message_edit_any_change(C, instance)
    ELSE LET C1 == Insert(C, "history",
                          MessageHistory(C.db.next["messages"], "", "", instance.sender))
         IN Insert(C1, "events",
                   EventLog("user_updated", instance.sender,
                            [message_id |-> C.db.next["messages"],
                             old_subject |-> "",
                             new_subject |-> instance.subject]))

\* The receiver keeping one snapshot per message: a later edit overwrites the
\* row of the earlier one.
log_message_edit_overwrite(C, instance) ==
    IF \E old \in C.db.messages : old.id = instance.id
    THEN LET old_instance == CHOOSE old \in C.db.messages : old.id = instance.id
             snapshots == {h \in C.db.history : h.message = instance.id}
         IN IF old_instance.content # instance.content
               \/ old_instance.subject # instance.subject
            THEN LET C1 == IF old_instance.content = instance.content
                           THEN C
                           ELSE IF snapshots = {}
                           THEN Insert(C, "history",
                                       MessageHistory(instance.id, old_instance.content,
                                                      old_instance.subject, instance.sender))
                           ELSE LET h == CHOOSE x \in snapshots : TRUE
                                IN Update(C, "history",
                                          [h EXCEPT !.old_content = old_instance.content,
                                                    !.old_subject = old_instance.subject])
                 IN Insert(C1, "events",
                           EventLog("user_updated", instance.sender,
                                    [message_id |-> instance.id,
                                     old_subject |-> old_instance.subject,
                                     new_subject |-> instance.subject]))
            ELSE C
    ELSE C

\* pre_save of Message
log_message_edit(C, instance) ==
    IF \E old \in C.db.messages : old.id = instance.id
    THEN LET old_instance == CHOOSE old \in C.db.messages : old.id = instance.id
         IN IF old_instance.content # instance.content
               \/ old_instance.subject # instance.subject
            THEN LET C1 == IF old_instance.content # instance.content
                           THEN Insert(C, "history",
                                       MessageHistory(instance.id, old_instance.content,
                                                      old_instance.subject, instance.sender))
                           ELSE C
                 IN Insert(C1, "events",
                           EventLog("user_updated", instance.sender,
                                    [message_id |-> instance.id,
                                     old_subject |-> old_instance.subject,
                                     new_subject |-> instance.subject]))
            ELSE C
    ELSE C  \* Message.DoesNotExist: a new message

\* The receiver without its test of created: it notifies on every save.
create_notification_on_every_save(C, instance, created) ==
    LET C1 == Insert(C, "notifications",
                     Notification(instance.receiver, "message_received", instance.id))
    IN Insert(C1, "events",
              EventLog("notification_sent", instance.receiver,
                       [message_id |-> instance.id, sender_id |-> instance.sender,
                        subject |-> instance.subject,
                        receiver_id |-> instance.receiver]))

\* The receiver addressing the notification to the sender of the message.
create_notification_for_sender(C, instance, created) ==
    IF created
    THEN LET C1 == Insert(C, "notifications",
                          Notification(instance.sender, "message_received", instance.id))
         IN Insert(C1, "events",
                   EventLog("notification_sent", instance.sender,
                            [message_id |-> instance.id, sender_id |-> instance.sender,
                             subject |-> instance.subject,
                             receiver_id |-> instance.receiver]))
    ELSE C

\* post_save of Message
create_notification_on_message(C, instance, created) ==
    IF created
    THEN LET C1 == Insert(C, "notifications",
                          Notification(instance.receiver, "message_received", instance.id))
         IN Insert(C1, "events",
                   EventLog("notification_sent", instance.receiver,
                            [message_id |-> instance.id, sender_id |-> instance.sender,
                             subject |-> instance.subject,
                             receiver_id |-> instance.receiver]))
    ELSE C

------------------------------------------------------------------------------
\* Model.save and Model.delete, with the signals they send

\* The row an UPDATE writes: every field of the instance, or with update_fields
\* only the named ones over the stored row.
UpdatedRow(S, instance, update_fields) ==
    IF update_fields = {} THEN instance
    ELSE LET stored == CHOOSE r \in S.messages : r.id = instance.id
         IN [f \in DOMAIN stored |->
                IF f \in update_fields THEN instance[f] ELSE stored[f]]

\* Message.save: pre_save, the INSERT or UPDATE, post_save. No transaction is
\* opened around the three.
MessageSave(C, instance, update_fields) ==
    LET created == ~(\E r \in C.db.messages : r.id = instance.id)
        C1 == log_message_edit(C, instance)
        edited == EditedInstance(C.db, instance)
        C2 == IF created THEN Insert(C1, "messages", edited)
              ELSE Update(C1, "messages", UpdatedRow(C1.db, edited, update_fields))
        saved == IF created THEN [edited EXCEPT !.id = C1.db.next["messages"]]
                 ELSE edited
    IN create_notification_on_message(C2, saved, created)

\* User.save: the INSERT or UPDATE, then post_save.
UserSave(C, instance) ==
    LET created == ~(\E r \in C.db.users : r.id = instance.id)
        C1 == IF created THEN Insert(C, "users", instance)
              ELSE Update(C, "users", instance)
        saved == IF created THEN [instance EXCEPT !.id = C.db.next["users"]]
                 ELSE instance
    IN log_user_created_or_updated(C1, saved, created)

\* A delete of the user's row alone: nothing is collected, no signal is sent.
UserDeleteRowOnly(C, instance) ==
    Delete(C, "users", {u \in C.db.users : u.id = instance.id})

\* User.delete: the cascade is collected and deleted and post_delete is sent,
\* inside one transaction.
UserDelete(C, instance) ==
    Atomic(C, cleanup_user_data(
                  DeleteCollected(C, Collect(C.db, {instance.id}, {})), instance))

------------------------------------------------------------------------------
\* views.py

Re(subject) == "Re: " \o subject

RECURSIVE RootOf(_, _)
RootOf(S, message) ==
    IF message.parent_message = NULL THEN message
    ELSE RootOf(S, CHOOSE p \in S.messages : p.id = message.parent_message)

\* send_reply without the lookup of the parent message: the reply is created
\* under the id the request names.
send_reply_without_lookup(C, user, parent_message_id, method, content) ==
    IF method = "POST"
    THEN [C |-> MessageSave(C, Message(user, user, parent_message_id,
                                       Re("s1"), content), {}),
          status |-> "ok"]
    ELSE [C |-> C, status |-> "405"]

\* send_reply without the permission test: whoever asks, the reply goes to
\* the receiver of the parent message.
send_reply_by_anyone(C, user, parent_message_id, method, content) ==
    IF method = "POST"
    THEN IF \E m \in C.db.messages : m.id = parent_message_id
         THEN LET parent_message == CHOOSE m \in C.db.messages : m.id = parent_message_id
                  root_message == RootOf(C.db, parent_message)
              IN [C |-> MessageSave(C, Message(user, parent_message.receiver,
                                               parent_message.id,
                                               Re(root_message.subject), content), {}),
                  status |-> "ok"]
         ELSE [C |-> C, status |-> "404"]
    ELSE [C |-> C, status |-> "405"]

send_reply(C, user, parent_message_id, method, content) ==
    IF method = "POST"
    THEN IF \E m \in C.db.messages : m.id = parent_message_id
         THEN LET parent_message == CHOOSE m \in C.db.messages : m.id = parent_message_id
                  root_message == RootOf(C.db, parent_message)
              IN IF user = parent_message.sender
                 THEN [C |-> MessageSave(C, Message(user, parent_message.receiver,
                                                    parent_message.id,
                                                    Re(root_message.subject), content), {}),
                       status |-> "ok"]
                 ELSE IF user = parent_message.receiver
                 THEN [C |-> MessageSave(C, Message(user, parent_message.sender,
                                                    parent_message.id,
                                                    Re(root_message.subject), content), {}),
                       status |-> "ok"]
                 ELSE [C |-> C, status |-> "403"]
         ELSE [C |-> C, status |-> "404"]
    ELSE [C |-> C, status |-> "405"]

\* The rows of a queryset in the order of order_by('timestamp') and of
\* order_by('-timestamp'). timestamp is auto_now_add: rows are stamped in the
\* order of their creation, which is the order of their primary keys.
Timestamp(message) == message.id

RECURSIVE OrderByTimestamp(_)
OrderByTimestamp(rows) ==
    IF rows = {} THEN <<>>
    ELSE LET first == CHOOSE r \in rows : \A q \in rows : Timestamp(r) <= Timestamp(q)
         IN <<first>> \o OrderByTimestamp(rows \ {first})

Reversed(seq) == [i \in 1..Len(seq) |-> seq[Len(seq) + 1 - i]]

OrderByTimestampDesc(rows) == Reversed(OrderByTimestamp(rows))

\* The manager without its filter on is_read.
unread_for_user_any(S, user) ==
    OrderByTimestampDesc({m \in S.messages : m.receiver = user})

\* models.py, UnreadMessagesManager (Message.unread_messages): only() limits the
\* columns that are loaded, not the rows.
unread_for_user(S, user) ==
    OrderByTimestampDesc({m \in S.messages : m.receiver = user /\ m.is_read = FALSE})

unread_count_for_user(S, user) ==
    Cardinality({m \in S.messages : m.receiver = user /\ m.is_read = FALSE})

\* message.replies.all(): the prefetched queryset of the requested message is
\* ordered by timestamp, the replies of any other message come in the order of
\* Meta.ordering, -timestamp.
RepliesAll(S, message, depth) ==
    LET replies == {r \in S.messages : r.parent_message = message.id}
    IN IF depth = 0 THEN OrderByTimestamp(replies) ELSE OrderByTimestampDesc(replies)

\* The interpreter gives up a recursion that is deeper than its limit; no
\* thread without a cycle is deeper than this.
RecursionLimit == MaxThread

\* build_thread_structure: <<thread>>, or <<>> when RecursionError was raised.
RECURSIVE build_thread_structure(_, _, _)
build_thread_structure(S, message, depth) ==
    IF depth > RecursionLimit THEN <<>>
    ELSE LET all == RepliesAll(S, message, depth)
             replies == [i \in 1..Len(all) |->
                            build_thread_structure(S, all[i], depth + 1)]
         IN IF \E i \in 1..Len(all) : replies[i] = <<>> THEN <<>>
            ELSE <<[id |-> message.id,
                    sender |-> message.sender,
                    receiver |-> message.receiver,
                    subject |-> message.subject,
                    content |-> message.content,
                    timestamp |-> Timestamp(message),
                    is_read |-> message.is_read,
                    edited |-> message.edited,
                    depth |-> depth,
                    replies |-> [i \in 1..Len(all) |-> replies[i][1]]]>>

\* conversation_thread marking the requested message read once its thread is
\* built.
conversation_thread_marking_read(C, user, message_id) ==
    IF \E m \in C.db.messages : m.id = message_id
    THEN LET root_message == CHOOSE m \in C.db.messages : m.id = message_id
         IN IF user # root_message.sender /\ user # root_message.receiver
            THEN [C |-> C, status |-> "403", threaded_messages |-> <<>>]
            ELSE LET threaded_messages == build_thread_structure(C.db, root_message, 0)
                 IN IF threaded_messages = <<>>
                    THEN [C |-> C, status |-> "RecursionError",
                          threaded_messages |-> <<>>]
                    ELSE [C |-> MessageSave(C, [root_message EXCEPT !.is_read = TRUE],
                                            {"is_read"}),
                          status |-> "ok",
                          threaded_messages |-> threaded_messages]
    ELSE [C |-> C, status |-> "404", threaded_messages |-> <<>>]

conversation_thread(C, user, message_id) ==
    IF \E m \in C.db.messages : m.id = message_id
    THEN LET root_message == CHOOSE m \in C.db.messages : m.id = message_id
         IN IF user # root_message.sender /\ user # root_message.receiver
            THEN [C |-> C, status |-> "403", threaded_messages |-> <<>>]
            ELSE LET threaded_messages == build_thread_structure(C.db, root_message, 0)
                 IN IF threaded_messages = <<>>
                    THEN [C |-> C, status |-> "RecursionError",
                          threaded_messages |-> <<>>]
                    ELSE [C |-> C, status |-> "ok",
                          threaded_messages |-> threaded_messages]
    ELSE [C |-> C, status |-> "404", threaded_messages |-> <<>>]

delete_user(C, user, method) ==
    IF method = "POST"
    THEN LET C1 == Insert(C, "events",
                          EventLog("user_deleted", user,
                                   [username |-> user, email |-> user, user_id |-> user]))
         IN [C |-> UserDelete(C1, User(user)), status |-> "ok"]
    ELSE [C |-> C, status |-> "ok"]

\* django.core.cache, keys "unread_count_<user id>": the model keeps the
\* entries by user id. An entry lives 60 seconds; the model lets none expire.
cache_get(entries, user) == IF user \in DOMAIN entries THEN <<entries[user]>> ELSE <<>>
cache_set(entries, user, value) ==
    [u \in DOMAIN entries \cup {user} |-> IF u = user THEN value ELSE entries[u]]
cache_delete(entries, user) == [u \in DOMAIN entries \ {user} |-> entries[u]]

\* mark_as_read with the message looked up by id alone.
mark_as_read_by_anyone(C, user, message_id, method) ==
    IF method = "POST"
    THEN IF \E m \in C.db.messages : m.id = message_id
         THEN LET message == CHOOSE m \in C.db.messages : m.id = message_id
              IN [C |-> MessageSave(C, [message EXCEPT !.is_read = TRUE], {"is_read"}),
                  status |-> "ok"]
         ELSE [C |-> C, status |-> "404"]
    ELSE [C |-> C, status |-> "405"]

mark_as_read(C, user, message_id, method) ==
    IF method = "POST"
    THEN IF \E m \in C.db.messages : m.id = message_id /\ m.receiver = user
         THEN LET message == CHOOSE m \in C.db.messages : m.id = message_id
              IN [C |-> MessageSave(C, [message EXCEPT !.is_read = TRUE], {"is_read"}),
                  status |-> "ok"]
         ELSE [C |-> C, status |-> "404"]
    ELSE [C |-> C, status |-> "405"]

\* The managers of Message (models.py): "objects" and "unread_messages". The
\* views below ask the class for "unread"; Python raises AttributeError for
\* an attribute the class does not have.
Managers == {"objects", "unread_messages"}

\* unread_messages: the count of the manager, kept in the cache and shown.
unread_messages(S, entries, user) ==
    IF "unread" \notin Managers
    THEN [status |-> "AttributeError", cache |-> entries, unread_count |-> <<>>]
    ELSE LET unread_count == unread_count_for_user(S, user)
         IN [status |-> "ok", cache |-> cache_set(entries, user, unread_count),
             unread_count |-> <<unread_count>>]

\* inbox_dashboard: the count of the cache; when the cache has none, the count
\* of the manager, which is then kept. recent_unread asks the manager again.
inbox_dashboard(S, entries, user) ==
    LET cached == cache_get(entries, user)
    IN IF cached = <<>>
       THEN IF "unread" \notin Managers
            THEN [status |-> "AttributeError", cache |-> entries, unread_count |-> <<>>]
            ELSE LET unread_count == unread_count_for_user(S, user)
                 IN [status |-> "ok", cache |-> cache_set(entries, user, unread_count),
                     unread_count |-> <<unread_count>>]
       ELSE IF "unread" \notin Managers
            THEN [status |-> "AttributeError", cache |-> entries, unread_count |-> <<>>]
            ELSE [status |-> "ok", cache |-> entries, unread_count |-> cached]

\* No send_reply request is under way.
NoReply == [user |-> NULL, parent_message |-> NULL, content |-> "", walk |-> <<>>]

------------------------------------------------------------------------------
\* The requests

Methods == {"GET", "POST"}

Bound == [users |-> MaxUsers, messages |-> MaxMessages, history |-> MaxHistory,
          notifications |-> MaxMessages, events |-> MaxEvents]

\* The request's writes become the store.
Written(C, status) ==
    /\ outcome' = IF C.failed THEN "db_error" ELSE status
    /\ ops' = C.log
    /\ users' = C.db.users
    /\ messages' = C.db.messages
    /\ history' = C.db.history
    /\ notifications' = C.db.notifications
    /\ events' = C.db.events
    /\ next' = C.db.next
    /\ faults' = IF C.failed THEN faults + 1 ELSE faults
    /\ UNCHANGED <<limiter, retry, pager>>

\* A request that runs from start to end in one step; the model stops handing
\* out primary keys at its bounds.
Commit(C, status) ==
    /\ faults < MaxFaults
    /\ \A t \in Tables : C.db.next[t] <= Bound[t] + 1
    /\ Written(C, status)
    /\ UNCHANGED <<reply, response, cache>>

RegisterUser ==
    LET C == UserSave(Begin(Cur), User(NULL))
    IN Commit(C, "ok")

UpdateUser ==
    \E u \in users : Commit(UserSave(Begin(Cur), u), "ok")

CreateMessage ==
    \E s \in Ids(users), r \in Ids(users), subject \in NewSubjects, content \in NewContents :
        Commit(MessageSave(Begin(Cur), Message(s, r, NULL, subject, content), {}),
               "ok")

EditMessage ==
    \E m \in messages :
      \E subject \in Subjects \cup {m.subject}, content \in Contents :
        Commit(MessageSave(Begin(Cur),
                           [m EXCEPT !.subject = subject, !.content = content], {}),
               "ok")

SendReply ==
    \E u \in Ids(users), id \in 1..MaxMessages, method \in Methods, content \in NewContents :
        LET R == send_reply(Begin(Cur), u, id, method, content)
        IN Commit(R.C, R.status)

\* mark_as_read, with the cache.delete that follows the save.
MarkAsReadBy(u, id, method) ==
    LET R == mark_as_read(Begin(Cur), u, id, method)
    IN /\ faults < MaxFaults
       /\ Written(R.C, R.status)
       /\ cache' = IF R.status = "ok" THEN cache_delete(cache, u) ELSE cache
       /\ UNCHANGED <<reply, response>>

MarkAsRead ==
    \E u \in Ids(users), id \in 1..MaxMessages, method \in Methods :
        MarkAsReadBy(u, id, method)

DeleteUserView ==
    \E u \in Ids(users), method \in Methods :
        LET R == delete_user(Begin(Cur), u, method)
        IN Commit(R.C, R.status)

DeleteUser ==
    \E u \in users : Commit(UserDelete(Begin(Cur), u), "ok")

\* The same requests against a store that accepts k writes and raises at the next.
Faults == 0..2

CreateMessageFault ==
    \E s \in Ids(users), r \in Ids(users), subject \in NewSubjects, content \in NewContents,
       k \in Faults :
        LET C == MessageSave(BeginFaulty(Cur, k), Message(s, r, NULL, subject, content), {})
        IN C.failed /\ Commit(C, "ok")

EditMessageFault ==
    \E m \in messages :
      \E subject \in Subjects \cup {m.subject}, content \in Contents, k \in Faults :
        LET C == MessageSave(BeginFaulty(Cur, k),
                             [m EXCEPT !.subject = subject, !.content = content], {})
        IN C.failed /\ Commit(C, "ok")

SendReplyFault ==
    \E u \in Ids(users), id \in 1..MaxMessages, content \in NewContents, k \in Faults :
        LET R == send_reply(BeginFaulty(Cur, k), u, id, "POST", content)
        IN R.C.failed /\ Commit(R.C, R.status)

\* One registered user, with the user_created entry the registration logged.
InitStore ==
    /\ users = {User(1)}
    /\ messages = {}
    /\ history = {}
    /\ notifications = {}
    /\ events = {[id |-> 1, event_type |-> "user_created", related_user |-> 1,
                  metadata |-> [username |-> 1]]}
    /\ next = [users |-> 2, messages |-> 1, history |-> 1, notifications |-> 1,
               events |-> 2]
    /\ ops = <<>>
    /\ outcome = "ok"
    /\ faults = 0
    /\ reply = NoReply
    /\ response = <<>>
    /\ cache = <<>>

Init == InitStore /\ AtRest(limiter) /\ AtRest(retry) /\ AtRest(pager)

Next ==
    \/ RegisterUser
    \/ UpdateUser
    \/ CreateMessage
    \/ EditMessage
    \/ SendReply
    \/ MarkAsRead
    \/ DeleteUserView
    \/ DeleteUser

Spec == Init /\ [][Next]_vars

NextFault ==
    \/ Next
    \/ CreateMessageFault
    \/ EditMessageFault
    \/ SendReplyFault

SpecFault == Init /\ [][NextFault]_vars

------------------------------------------------------------------------------
\* Thread assembly over a store whose parent links are arbitrary: the rows
\* were written without the views (the admin site, a bulk import), so a
\* message's parent may be any message, itself and a reply of it included.

ThreadUsers == {1, 2, 3}

BoundThread == [users |-> Cardinality(ThreadUsers), messages |-> MaxThread,
                history |-> MaxHistory, notifications |-> MaxThread,
                events |-> MaxEvents]

InitThread ==
    /\ users = {[User(NULL) EXCEPT !.id = u] : u \in ThreadUsers}
    /\ \E n \in 1..MaxThread : \E parent \in [1..n -> 0..n] :
          /\ messages = {[Message(1, 2, parent[i], "s1", "hi") EXCEPT !.id = i] :
                            i \in 1..n}
          /\ next = [users |-> Cardinality(ThreadUsers) + 1, messages |-> n + 1,
                     history |-> 1, notifications |-> 1, events |-> 1]
    /\ history = {}
    /\ notifications = {}
    /\ events = {}
    /\ ops = <<>>
    /\ outcome = "ok"
    /\ faults = 0
    /\ reply = NoReply
    /\ response = <<>>
    /\ cache = <<>>
    /\ AtRest(limiter) /\ AtRest(retry) /\ AtRest(pager)

\* conversation_thread, from the lookup of the message to the response.
\* Requests are served one at a time.
ConversationThreadBy(u, id) ==
    LET R == conversation_thread(Begin(Cur), u, id)
    IN /\ reply = NoReply
       /\ UNCHANGED <<reply, cache>>
       /\ Written(R.C, R.status)
       /\ response' = R.threaded_messages

ConversationThread ==
    \E u \in Ids(users), id \in 1..MaxThread : ConversationThreadBy(u, id)

\* send_reply up to its loop: the method, the lookup of the parent message and
\* the permission test.
StartReply ==
    \E u \in Ids(users), id \in 1..MaxThread, method \in Methods,
       content \in NewContents :
        /\ reply = NoReply
        /\ IF method # "POST"
           THEN Written(Begin(Cur), "405") /\ UNCHANGED reply
           ELSE IF ~(\E m \in messages : m.id = id)
           THEN Written(Begin(Cur), "404") /\ UNCHANGED reply
           ELSE LET parent_message == CHOOSE m \in messages : m.id = id
                IN IF u # parent_message.sender /\ u # parent_message.receiver
                   THEN Written(Begin(Cur), "403") /\ UNCHANGED reply
                   ELSE /\ Written(Begin(Cur), "running")
                        /\ reply' = [user |-> u, parent_message |-> id,
                                     content |-> content, walk |-> <<id>>]
        /\ response' = <<>>
        /\ UNCHANGED cache

\* The message the loop of send_reply is at.
RootMessage == CHOOSE m \in messages : m.id = reply.walk[Len(reply.walk)]

\* One turn of "while root_message.parent_message"; the model follows the loop
\* for one turn more than there are messages.
AscentStep ==
    /\ reply # NoReply
    /\ RootMessage.parent_message # NULL
    /\ Len(reply.walk) <= MaxThread
    /\ reply' = [reply EXCEPT !.walk = Append(@, RootMessage.parent_message)]
    /\ UNCHANGED <<users, messages, history, notifications, events, next, ops,
                   outcome, faults, response, cache, limiter, retry, pager>>

\* The loop has ended: send_reply creates the reply.
FinishReply ==
    /\ reply # NoReply
    /\ RootMessage.parent_message = NULL
    /\ LET parent_message == CHOOSE m \in messages : m.id = reply.parent_message
           receiver == IF reply.user = parent_message.sender
                       THEN parent_message.receiver ELSE parent_message.sender
           C == MessageSave(Begin(Cur),
                            Message(reply.user, receiver, parent_message.id,
                                    Re(RootMessage.subject), reply.content), {})
       IN /\ \A t \in Tables : C.db.next[t] <= BoundThread[t] + 1
          /\ Written(C, "ok")
    /\ reply' = NoReply
    /\ UNCHANGED <<response, cache>>

NextThread ==
    \/ ConversationThread
    \/ StartReply
    \/ AscentStep
    \/ FinishReply

SpecThread == InitThread /\ [][NextThread]_vars

------------------------------------------------------------------------------
\* The inbox: messages arrive and are marked read, and their receivers ask
\* for their unread messages and their dashboard. The response of a view is
\* the unread count it shows, <<>> when it shows none.

Answered(view, R, user) ==
    /\ outcome' = R.status
    /\ ops' = <<>>
    /\ response' = <<[view |-> view, user |-> user, unread_count |-> R.unread_count]>>
    /\ cache' = R.cache
    /\ UNCHANGED <<users, messages, history, notifications, events, next, faults,
                   reply, limiter, retry, pager>>

UnreadMessages ==
    \E u \in Ids(users) : Answered("unread_messages", unread_messages(Cur, cache, u), u)

InboxDashboard ==
    \E u \in Ids(users) : Answered("inbox_dashboard", inbox_dashboard(Cur, cache, u), u)

NextInbox ==
    \/ RegisterUser
    \/ CreateMessage
    \/ MarkAsRead
    \/ UnreadMessages
    \/ InboxDashboard

SpecInbox == Init /\ [][NextInbox]_vars

------------------------------------------------------------------------------
\* Thread assembly over the stores the views produce: every message but the
\* first is either a new thread or a reply to an earlier message. One message
\* more than in the stores above, so that a reply can have two replies.

InitForest ==
    /\ users = {[User(NULL) EXCEPT !.id = u] : u \in ThreadUsers}
    /\ \E parent \in [1..(MaxThread + 1) -> 0..MaxThread] :
          /\ \A i \in 1..(MaxThread + 1) : parent[i] < i
          /\ messages = {[Message(1, 2, parent[i], "s1", "hi") EXCEPT !.id = i] :
                            i \in 1..(MaxThread + 1)}
    /\ next = [users |-> Cardinality(ThreadUsers) + 1, messages |-> MaxThread + 2,
               history |-> 1, notifications |-> 1, events |-> 1]
    /\ history = {}
    /\ notifications = {}
    /\ events = {}
    /\ ops = <<>>
    /\ outcome = "ok"
    /\ faults = 0
    /\ reply = NoReply
    /\ response = <<>>
    /\ cache = <<>>
    /\ AtRest(limiter) /\ AtRest(retry) /\ AtRest(pager)

NextForest == ConversationThread

SpecForest == InitForest /\ [][NextForest]_vars

------------------------------------------------------------------------------
\* Django-Middleware-0x03/chats/middleware.py: OffensiveLanguageMiddleware, the
\* rate limiter of POST requests to /api/messages/, and message_count_tracker,
\* the process-wide dictionary it counts in.
\*
\* limiter is a record:
\*   tracker  message_count_tracker: ip -> [count, reset_time], an entry made
\*            at the first access to the ip
\*   clock    time.time(), in seconds
\*   passed   per ip, the current_time of each POST that reached get_response
\*   threads  per worker thread, the request it serves and where it is in
\*            __call__, and the status of the last response it gave
\*   served, ticks   how many requests were received and clock advances made

message_limit == 5
time_window == 60

\* How many requests a run receives, how often its clock is advanced, and how
\* many worker threads the server runs.
MaxRequests == 7
MaxTicks == 2
MaxWorkers == 2

IPs == {"a", "b"}

\* request.method and request.path
Requests ==
    {[method |-> "POST", path |-> "/api/messages/"],
     [method |-> "GET", path |-> "/api/messages/"],
     [method |-> "POST", path |-> "/api/conversations/"]}

\* The clock advances by a second or by a whole window.
Ticks == {1, time_window}

IdleThread == [pc |-> "idle", ip |-> "", current_time |-> 0, count |-> 0, status |-> ""]

InitLimiterWith(workers) ==
    /\ InitStore /\ AtRest(retry) /\ AtRest(pager)
    /\ limiter = [tracker |-> <<>>, clock |-> 0,
                  passed |-> [ip \in IPs |-> <<>>],
                  threads |-> [w \in 1..workers |-> IdleThread],
                  served |-> 0, ticks |-> 0]

\* message_count_tracker[client_ip]: the defaultdict makes the entry on the
\* first access.
TrackerEntry(ip) ==
    IF ip \in DOMAIN limiter.tracker THEN limiter.tracker[ip]
    ELSE [count |-> 0, reset_time |-> limiter.clock]

\* __call__ up to the test of the limit: the entry is looked up, reset when
\* its window has passed, and the request answered 429 when the count is at
\* the limit. Any other request goes straight to get_response.
Receive(w) ==
    \E ip \in IPs, request \in Requests :
        /\ limiter.threads[w].pc = "idle"
        /\ limiter.served < MaxRequests
        /\ IF request.method = "POST" /\ request.path = "/api/messages/"
           THEN LET current_time == limiter.clock
                    tracker_entry ==
                        IF current_time - TrackerEntry(ip).reset_time > time_window
                        THEN [count |-> 0, reset_time |-> current_time]
                        ELSE TrackerEntry(ip)
                IN limiter' =
                     [limiter EXCEPT
                        !.tracker = (ip :> tracker_entry) @@ @,
                        !.served = @ + 1,
                        !.threads[w] =
                            IF tracker_entry.count >= message_limit
                            THEN [IdleThread EXCEPT !.ip = ip, !.status = "429"]
                            ELSE [pc |-> "load", ip |-> ip,
                                  current_time |-> current_time, count |-> 0,
                                  status |-> ""]]
           ELSE limiter' =
                     [limiter EXCEPT
                        !.served = @ + 1,
                        !.threads[w] = [IdleThread EXCEPT !.ip = ip, !.status = "200"]]
        /\ UNCHANGED <<messaging, retry, pager>>

\* tracker_entry['count'] += 1 reads the count ...
Load(w) ==
    /\ limiter.threads[w].pc = "load"
    /\ limiter' = [limiter EXCEPT
                     !.threads[w].pc = "store",
                     !.threads[w].count = limiter.tracker[limiter.threads[w].ip].count]
    /\ UNCHANGED <<messaging, retry, pager>>

\* ... and writes it back, one more; then the request reaches get_response.
Store(w) ==
    /\ limiter.threads[w].pc = "store"
    /\ LET thread == limiter.threads[w]
       IN limiter' = [limiter EXCEPT
                        !.tracker[thread.ip].count = thread.count + 1,
                        !.passed[thread.ip] = Append(@, thread.current_time),
                        !.threads[w] = [IdleThread EXCEPT !.ip = thread.ip,
                                                          !.status = "200"]]
    /\ UNCHANGED <<messaging, retry, pager>>

\* Time passes. A request is served within one reading of the clock.
Tick ==
    \E d \in Ticks :
        /\ limiter.ticks < MaxTicks
        /\ \A w \in DOMAIN limiter.threads : limiter.threads[w].pc = "idle"
        /\ limiter' = [limiter EXCEPT !.clock = @ + d, !.ticks = @ + 1]
        /\ UNCHANGED <<messaging, retry, pager>>

NextLimiter ==
    \/ \E w \in DOMAIN limiter.threads : Receive(w)
    \/ \E w \in DOMAIN limiter.threads : Load(w)
    \/ \E w \in DOMAIN limiter.threads : Store(w)
    \/ Tick

\* One worker: the requests are served one after the other.
InitLimiter == InitLimiterWith(1)
SpecLimiter == InitLimiter /\ [][NextLimiter]_vars

\* Several workers: the requests are served at once, sharing the tracker.
InitLimiterThreads == InitLimiterWith(MaxWorkers)
SpecLimiterThreads == InitLimiterThreads /\ [][NextLimiter]_vars

------------------------------------------------------------------------------
\* python-decorators-0x01/3-retry_on_failure.py: one call of the wrapper
\* that retry_on_failure(retries, delay) puts around a function. The function
\* returns a value or raises an Exception, as it chooses, at every invocation.

MaxRetries == 3

Delays == {1, 2}
ReturnValues == {"users"}
Exceptions == {"OperationalError", "DatabaseError"}

\* What an invocation of the wrapped function may end in.
Outcomes ==
    [kind : {"return"}, value : ReturnValues] \cup [kind : {"raise"}, value : Exceptions]

None == [kind |-> "return", value |-> "None"]

\* "attempts = 0": the wrapper is called.
InitRetry ==
    /\ InitStore /\ AtRest(limiter) /\ AtRest(pager)
    /\ \E retries \in 0..MaxRetries, delay \in Delays :
          retry = [retries |-> retries, delay |-> delay, attempts |-> 0,
                   pc |-> "while", calls |-> <<>>, slept |-> <<>>, result |-> <<>>]

\* "if attempts >= retries" with the test one attempt late.
exhausted_late(attempts, retries) == attempts > retries

\* "if attempts >= retries"
exhausted(attempts, retries) == attempts >= retries

\* "while attempts < retries: try: return func(*args, **kwargs)"
Invoke ==
    /\ retry.pc = "while"
    /\ retry.attempts < retry.retries
    /\ \E outcome_of_func \in Outcomes :
          retry' = [retry EXCEPT
                      !.calls = Append(@, outcome_of_func),
                      !.pc = IF outcome_of_func.kind = "return" THEN "returned" ELSE "except",
                      !.result = IF outcome_of_func.kind = "return"
                                 THEN <<outcome_of_func>> ELSE @]
    /\ UNCHANGED <<messaging, limiter, pager>>

\* "except Exception as e: attempts += 1; if attempts >= retries: raise"
Except ==
    /\ retry.pc = "except"
    /\ LET attempts == retry.attempts + 1
       IN retry' = IF exhausted(attempts, retry.retries)
                   THEN [retry EXCEPT !.attempts = attempts, !.pc = "raised",
                                      !.result = <<retry.calls[Len(retry.calls)]>>]
                   ELSE [retry EXCEPT !.attempts = attempts, !.pc = "sleep"]
    /\ UNCHANGED <<messaging, limiter, pager>>

\* "time.sleep(delay)", and back to the test of the loop.
Sleep ==
    /\ retry.pc = "sleep"
    /\ retry' = [retry EXCEPT !.slept = Append(@, retry.delay), !.pc = "while"]
    /\ UNCHANGED <<messaging, limiter, pager>>

\* The loop ends by its test: the wrapper has no return statement after it.
FallThrough ==
    /\ retry.pc = "while"
    /\ ~(retry.attempts < retry.retries)
    /\ retry' = [retry EXCEPT !.pc = "returned", !.result = <<None>>]
    /\ UNCHANGED <<messaging, limiter, pager>>

NextRetry ==
    \/ Invoke
    \/ Except
    \/ Sleep
    \/ FallThrough

SpecRetry == InitRetry /\ [][NextRetry]_vars

------------------------------------------------------------------------------
\* python-generators-0x00/2-lazy_paginate.py: one generator of
\* lazy_pagination(page_size) and its consumer. The table user_data is a
\* sequence of rows, in the order in which the server scans it; no statement
\* of the program changes it.

MaxRows == 4
MaxPageSize == 3

Min(a, b) == IF a < b THEN a ELSE b

\* "SELECT * FROM user_data LIMIT {page_size} OFFSET {offset}" taking one row
\* more than the limit.
paginate_users_one_more(table, page_size, offset) ==
    SubSeq(table, offset + 1, Min(offset + page_size + 1, Len(table)))

\* "SELECT * FROM user_data LIMIT {page_size} OFFSET {offset}"
paginate_users(table, page_size, offset) ==
    SubSeq(table, offset + 1, Min(offset + page_size, Len(table)))

\* lazy_pagination(page_size) is called: the generator exists, none of its
\* body has run.
InitPager ==
    /\ InitStore /\ AtRest(limiter) /\ AtRest(retry)
    /\ \E n \in 0..MaxRows, page_size \in 0..MaxPageSize :
          pager = [table |-> [i \in 1..n |-> i], page_size |-> page_size,
                   pc |-> "created", offset |-> 0, page |-> <<>>,
                   asked |-> 0, queries |-> <<>>, yielded |-> <<>>]

\* The consumer asks for the next item: the generator starts with
\* "offset = 0", or goes on after its yield with "offset += page_size".
AskNext ==
    /\ pager.pc \in {"created", "suspended"}
    /\ pager' = [pager EXCEPT
                    !.asked = @ + 1,
                    !.offset = IF pager.pc = "created" THEN 0 ELSE @ + pager.page_size,
                    !.pc = "running"]
    /\ UNCHANGED <<messaging, limiter, retry>>

\* "page = paginate_users(page_size, offset)"
Fetch ==
    /\ pager.pc = "running"
    /\ pager' = [pager EXCEPT
                    !.page = paginate_users(pager.table, pager.page_size, pager.offset),
                    !.queries = Append(@, pager.offset),
                    !.pc = "fetched"]
    /\ UNCHANGED <<messaging, limiter, retry>>

\* "yield page": the generator hands the page over and waits.
Yield ==
    /\ pager.pc = "fetched"
    /\ pager.page # <<>>
    /\ pager' = [pager EXCEPT !.yielded = Append(@, pager.page), !.pc = "suspended"]
    /\ UNCHANGED <<messaging, limiter, retry>>

\* "if not page: break", and the return that ends the generator.
Break ==
    /\ pager.pc = "fetched"
    /\ pager.page = <<>>
    /\ pager' = [pager EXCEPT !.pc = "done"]
    /\ UNCHANGED <<messaging, limiter, retry>>

NextPager ==
    \/ AskNext
    \/ Fetch
    \/ Yield
    \/ Break

SpecPager == InitPager /\ [][NextPager]_vars

------------------------------------------------------------------------------
\* The claims

Inserted(table) ==
    {i \in DOMAIN ops : ops[i].op = "insert" /\ ops[i].table = table}
Updated(table) ==
    {i \in DOMAIN ops : ops[i].op = "update" /\ ops[i].table = table}
Removed(table) ==
    {i \in DOMAIN ops : ops[i].op = "delete" /\ ops[i].table = table}

\* The users that were registered and are no longer stored.
DeletedUsers == (1..(next["users"] - 1)) \ Ids(users)

\* C1: a save that changes the stored content of a message adds exactly one
\* history row, holding the content and subject stored before it, and leaves
\* the message flagged edited; a save that changes only the subject adds none.
C1_HistoryOnContentChange ==
    [][\A old \in messages : \A new \in messages' :
          new.id = old.id =>
            /\ new.content # old.content =>
                 /\ history \subseteq history'
                 /\ Cardinality(history' \ history) = 1
                 /\ \A h \in history' \ history :
                        /\ h.message = old.id
                        /\ h.old_content = old.content
                        /\ h.old_subject = old.subject
                 /\ new.edited
            /\ (new.content = old.content /\ new.subject # old.subject) =>
                 history' = history]_vars

\* A message whose content was edited from "hi" to "hello" and whose history
\* holds the snapshot.
C1_Witness ==
    \E m \in messages : \E h \in history :
        /\ h.message = m.id /\ h.old_content = "hi"
        /\ m.content = "hello" /\ m.edited
        /\ Updated("messages") # {}

\* C2: the save that creates a message adds exactly one notification, linked
\* to it, and exactly one notification_sent entry; a save of a stored message
\* adds no notification; so every stored message has exactly one notification.
C2_OneNotificationPerMessage ==
    /\ [](\A m \in messages :
             Cardinality({n \in notifications : n.message = m.id}) = 1)
    /\ [][/\ \A new \in messages' :
                new.id \notin Ids(messages) =>
                  /\ Cardinality(notifications' \ notifications) = 1
                  /\ \A n \in notifications' \ notifications : n.message = new.id
                  /\ Cardinality({e \in events' \ events :
                                     e.event_type = "notification_sent"}) = 1
          /\ Ids(messages') \subseteq Ids(messages) =>
                notifications' \subseteq notifications]_vars

\* A stored message that was created and then saved again (edited or marked
\* read) and still has its one notification.
C2_Witness ==
    \E m \in messages :
        /\ m.edited \/ m.is_read
        /\ Updated("messages") # {}
        /\ Cardinality({n \in notifications : n.message = m.id}) = 1

\* C3: the counts in the user_deleted summary entry are the numbers of rows
\* the deletion removed from the store.
C3_SummaryCountsAreRemovedRows ==
    [][Ids(users') # Ids(users) /\ Ids(users') \subseteq Ids(users) =>
         \E e \in events' \ events :
            /\ e.event_type = "user_deleted"
            /\ e.metadata.deleted_message_histories = Cardinality(history \ history')
            /\ e.metadata.deleted_messages_sent + e.metadata.deleted_messages_received
                 = Cardinality(messages \ messages')
            /\ e.metadata.deleted_notifications
                 = Cardinality(notifications \ notifications')
            /\ e.metadata.total_deleted
                 = Cardinality(history \ history') + Cardinality(messages \ messages')
                   + Cardinality(notifications \ notifications')]_vars

\* C4: no stored message has a deleted user as sender or receiver, no stored
\* notification has one as recipient, and every stored history row belongs to a
\* stored message that no deleted user sent or edited.
C4_NothingOfDeletedUsers ==
    \A u \in DeletedUsers :
        /\ \A m \in messages : m.sender # u /\ m.receiver # u
        /\ \A n \in notifications : n.user # u
        /\ \A h \in history :
              /\ h.edited_by # u
              /\ \E m \in messages : m.id = h.message /\ m.sender # u

\* A user was deleted, and messages went with the user.
C4_Witness ==
    /\ DeletedUsers # {}
    /\ Removed("users") # {}
    /\ Removed("messages") # {}

\* C5: a request that deletes a user appends exactly one user_deleted entry.
C5_OneUserDeletedEntry ==
    Removed("users") # {} =>
        Cardinality({i \in Inserted("events") :
                        \E e \in ops[i].rows : e.event_type = "user_deleted"}) = 1

\* C6: an entry of the event log stays in it, as it is.
C6_EventLogAppendOnly ==
    [][events \subseteq events']_vars

\* C7: when the pre_save receiver of a content-changing edit has written its
\* history row and its log entry and the UPDATE of the message then raises,
\* neither of the two is in the store afterwards.
C7_EditAtomic ==
    [][(/\ outcome' = "db_error"
        /\ Len(ops') = 2
        /\ Inserted("history")' = {1}
        /\ Inserted("events")' = {2})
       => (history' = history /\ events' = events)]_vars

\* C8: when the notification write or the log write of a message creation
\* raises, the message, the notification and the log entry of that creation are
\* not in the store afterwards.
C8_CreateAtomic ==
    [][(outcome' = "db_error" /\ next'["messages"] > next["messages"])
       => (/\ messages' = messages
           /\ notifications' = notifications
           /\ events' = events)]_vars

\* C9: in a request that updates a message, the history row is written before
\* the UPDATE and the log entry after it; in a request that inserts a message,
\* the INSERT comes first, then the notification, then the log entry.
C9_ReactionOrder ==
    /\ \A j \in Updated("messages") :
          /\ \A i \in Inserted("history") : i < j
          /\ \A i \in Inserted("events") : j < i
    /\ \A j \in Inserted("messages") :
          /\ \A i \in Inserted("notifications") : j < i
          /\ \A i \in Inserted("events") :
                j < i /\ \A k \in Inserted("notifications") : k < i

\* C10: every history row and every notification with a message refers to a
\* stored message, every message has a stored sender and receiver, and within a
\* request no history row is removed after the message it refers to.
C10_ReferentialIntegrity ==
    /\ \A h \in history : h.message \in Ids(messages)
    /\ \A n \in notifications : n.message # NULL => n.message \in Ids(messages)
    /\ \A m \in messages : m.sender \in Ids(users) /\ m.receiver \in Ids(users)
    /\ \A j \in Removed("messages") : \A i \in Removed("history") :
          (\E h \in ops[i].rows : h.message \in Ids(ops[j].rows)) => i < j

\* A cascade removed a message together with a history row of it.
C10_Witness ==
    \E j \in Removed("messages") : \E i \in Removed("history") :
        \E h \in ops[i].rows : h.message \in Ids(ops[j].rows)

C12_ThreadAssemblyStops ==
    /\ \A i, j \in DOMAIN reply.walk : reply.walk[i] = reply.walk[j] => i = j
    /\ outcome # "RecursionError"

\* Following the parent links from the message reaches, within fuel steps, a
\* message without a parent, and every parent on the way is stored.
RECURSIVE ReachesRoot(_, _, _)
ReachesRoot(S, message, fuel) ==
    \/ message.parent_message = NULL
    \/ /\ fuel > 0
       /\ \E p \in S.messages :
             p.id = message.parent_message /\ ReachesRoot(S, p, fuel - 1)

\* The parent links of the store form a forest.
IsForest(S) == \A m \in S.messages : ReachesRoot(S, m, Cardinality(S.messages))

\* The ids of the messages in a tree of build_thread_structure.
RECURSIVE ThreadIds(_)
ThreadIds(thread) ==
    {thread.id} \cup UNION {ThreadIds(thread.replies[i]) : i \in DOMAIN thread.replies}

\* The last request was a conversation_thread that returned a thread.
ThreadReturned ==
    response # <<>> /\ outcome = "ok" /\ ops = <<>> /\ reply = NoReply

\* C13: over parent links that form a forest, the thread conversation_thread
\* returns for a message is rooted at the root of the message's thread, the
\* message without parent that its parent links lead to, and holds every
\* message of that thread.
C13_ThreadFromRoot ==
    (ThreadReturned /\ IsForest(Cur)) =>
        LET root == CHOOSE m \in messages : m.id = response[1].id
        IN /\ root.parent_message = NULL
           /\ ThreadIds(response[1])
                = {m.id : m \in {q \in messages : RootOf(Cur, q) = root}}

\* C14: in every state the requests reach, the parent of a message is a stored
\* message, and following the parent links from any message reaches a message
\* without parent and meets no message twice.
C14_ParentLinksForest ==
    \A m \in messages :
        /\ m.parent_message # NULL => m.parent_message \in Ids(messages)
        /\ ReachesRoot(Cur, m, Cardinality(messages) - 1)

\* The last request stored a reply, under a stored message without parent.
C14_Witness ==
    \E i \in Inserted("messages") : \E m \in ops[i].rows :
        /\ m \in messages
        /\ \E p \in messages : p.id = m.parent_message /\ p.parent_message = NULL

\* C15: for every user, unread_for_user returns the stored messages whose
\* receiver is the user and that are not read, each once, the later created
\* first, and unread_count_for_user is the number of messages it returns.
C15_UnreadForUser ==
    \A u \in Ids(users) :
        LET unread == unread_for_user(Cur, u)
        IN /\ \A m \in messages :
                 (\E i \in DOMAIN unread : unread[i] = m)
                   <=> (m.receiver = u /\ ~m.is_read)
           /\ \A i, j \in DOMAIN unread :
                 i < j => Timestamp(unread[i]) > Timestamp(unread[j])
           /\ unread_count_for_user(Cur, u) = Len(unread)

\* A user has received two messages and has marked one of them read: the
\* other is the one unread message.
C15_Witness ==
    \E u \in Ids(users) :
        /\ Len(unread_for_user(Cur, u)) = 1
        /\ \E m \in messages : m.receiver = u /\ m.is_read
        /\ Updated("messages") # {}

\* The event types of the specification's event log.
EventTypes ==
    {"user_created", "user_updated", "user_deleted", "notification_sent",
     "message_edited"}

\* C16: a save that changes the content or the subject of a stored message
\* appends exactly one entry to the event log, of type message_edited; and
\* every entry of the log has one of the five event types.
C16_EditLoggedAsMessageEdited ==
    /\ [](\A e \in events : e.event_type \in EventTypes)
    /\ [][\A old \in messages : \A new \in messages' :
            (new.id = old.id
             /\ (new.content # old.content \/ new.subject # old.subject)) =>
                /\ Cardinality(events' \ events) = 1
                /\ \A e \in events' \ events : e.event_type = "message_edited"]_vars

\* C17: the save that stores a new message ends without error, leaves the
\* message not flagged edited and without any history row, and appends no entry
\* to the event log but the notification_sent entry of the creation.
C17_NoSnapshotOnCreate ==
    [][\A new \in messages' :
          new.id \notin Ids(messages) =>
            /\ outcome' = "ok"
            /\ ~new.edited
            /\ \A h \in history' : h.message # new.id
            /\ history' = history
            /\ \A e \in events' \ events : e.event_type = "notification_sent"]_vars

\* The last request created a message; it is stored, not edited, without
\* history.
C17_Witness ==
    /\ outcome = "ok"
    /\ \E i \in Inserted("messages") : \E m \in ops[i].rows :
          /\ m \in messages
          /\ ~m.edited
          /\ ~(\E h \in history : h.message = m.id)

\* C18: in every reachable state, a mark_as_read request of a user who is not
\* the receiver of the message, its sender included, is answered with an error
\* and writes nothing; a mark_as_read request of the receiver is answered with
\* success and leaves the message read.
C18_OnlyReceiverMarksRead ==
    \A u \in Ids(users), message \in messages :
        LET R == mark_as_read(Begin(Cur), u, message.id, "POST")
        IN IF u = message.receiver
           THEN /\ R.status = "ok"
                /\ \E m \in R.C.db.messages : m.id = message.id /\ m.is_read
           ELSE /\ R.status \in {"403", "404"}
                /\ R.C.log = <<>>
                /\ R.C.db = Cur

\* Every message id is stored, one of the messages went from one user to
\* another and is unread, and the last request was answered "not found": a
\* mark_as_read request of a user who is not the receiver.
C18_Witness ==
    /\ outcome = "404"
    /\ \A id \in 1..MaxMessages : id \in Ids(messages)
    /\ \E m \in messages : m.sender # m.receiver /\ ~m.is_read

\* C19: a history row is never changed, and it stays in the store as long as
\* its message does: the history of a stored message only grows.
C19_HistoryImmutable ==
    [][\A h \in history :
          /\ \A h2 \in history' : h2.id = h.id => h2 = h
          /\ h.message \in Ids(messages') => h \in history']_vars

\* A message with a history row was saved again by the last request (its
\* subject edited, or marked read), and the row is in the store.
C19_Witness ==
    \E i \in Updated("messages") : \E m \in ops[i].rows :
        /\ Inserted("history") = {}
        /\ \E h \in history : h.message = m.id

\* C20: a conversation_thread request changes no table, and the same request
\* made again right after it is answered with the same thread.
C20_ThreadIdempotent ==
    [][\A u \in Ids(users), id \in Ids(messages) :
          ConversationThreadBy(u, id) =>
            LET again == conversation_thread(Begin(Cur'), u, id)
            IN /\ UNCHANGED <<users, messages, history, notifications, events, next>>
               /\ again.C.log = <<>>
               /\ again.status = outcome'
               /\ again.threaded_messages = response']_vars

\* The last request returned a thread that has a reply in it.
C20_Witness ==
    /\ ThreadReturned
    /\ response[1].replies # <<>>

\* C21: a request that saves a stored message with the content and the subject
\* it has (a plain save, or marking it read) adds no history row, no
\* notification and no log entry, and leaves the content, the subject and the
\* edited flag of the message as they were.
C21_ResaveChangesNothingElse ==
    [][\A i \in Updated("messages")' : \A new \in ops'[i].rows :
          \A old \in messages :
            (old.id = new.id /\ old.content = new.content
             /\ old.subject = new.subject) =>
                /\ history' = history
                /\ notifications' = notifications
                /\ events' = events
                /\ new.edited = old.edited
                /\ \E m \in messages' :
                      /\ m.id = old.id
                      /\ m.content = old.content
                      /\ m.subject = old.subject
                      /\ m.edited = old.edited]_vars

\* The last request saved a message that was never edited, marking it read,
\* and wrote nothing else.
C21_Witness ==
    /\ Len(ops) = 1
    /\ \E i \in Updated("messages") : \E m \in ops[i].rows :
          m \in messages /\ m.is_read /\ ~m.edited

\* The replies of every node of the thread come oldest first.
RECURSIVE OldestFirst(_)
OldestFirst(thread) ==
    /\ \A i, j \in DOMAIN thread.replies :
          i < j => thread.replies[i].timestamp < thread.replies[j].timestamp
    /\ \A i \in DOMAIN thread.replies : OldestFirst(thread.replies[i])

\* C22: in the thread conversation_thread returns, the replies of every
\* message, at every depth, come in the order of their creation, oldest first.
C22_RepliesOldestFirst ==
    ThreadReturned => OldestFirst(response[1])

\* C23: in every reachable state, a POST send_reply request of the sender or
\* the receiver of a stored parent message creates one message, sent by the
\* requester to the other party of the parent, with the parent as its parent;
\* a request of anyone else, for a parent that is not stored, or with another
\* method is answered with an error and writes nothing.
C23_ReplyOnlyByParties ==
    \A u \in Ids(users), id \in 1..MaxMessages, method \in Methods :
        LET R == send_reply(Begin(Cur), u, id, method, "hi")
            parents == {m \in messages : m.id = id}
        IN IF /\ method = "POST"
              /\ \E p \in parents : u = p.sender \/ u = p.receiver
           THEN /\ R.status = "ok"
                /\ messages \subseteq R.C.db.messages
                /\ Cardinality(R.C.db.messages \ messages) = 1
                /\ \A new \in R.C.db.messages \ messages : \A p \in parents :
                      /\ new.sender = u
                      /\ new.receiver = IF u = p.sender THEN p.receiver ELSE p.sender
                      /\ new.parent_message = p.id
           ELSE /\ R.status \in {"403", "404", "405"}
                /\ R.C.log = <<>>
                /\ R.C.db = Cur

\* A user who is neither the sender nor the receiver of a stored message was
\* refused a reply to it.
C23_Witness ==
    /\ outcome = "403"
    /\ ops = <<>>
    /\ \E m \in messages : \E u \in Ids(users) : u # m.sender /\ u # m.receiver

\* The POSTs of the ip that were let through in the time_window seconds up to
\* and including time t.
PassedWithin(ip, t) ==
    {i \in DOMAIN limiter.passed[ip] :
        t - time_window < limiter.passed[ip][i] /\ limiter.passed[ip][i] <= t}

\* C25: the unread count in the response of inbox_dashboard is the number of
\* stored messages that the requesting user has received and not read.
C25_DashboardCountIsCurrent ==
    [][\A u \in Ids(users) :
          Answered("inbox_dashboard", inbox_dashboard(Cur, cache, u), u) =>
              response'[1].unread_count
                  = <<Cardinality({m \in messages : m.receiver = u /\ ~m.is_read})>>]_vars

\* C28: a save that changes the subject of a stored message and not its
\* content leaves the message flagged edited and appends exactly one entry to
\* the event log, and adds no history row.
C28_SubjectEditFlagsWithoutHistory ==
    [][\A old \in messages : \A new \in messages' :
          (new.id = old.id /\ new.content = old.content /\ new.subject # old.subject) =>
              /\ new.edited
              /\ history' = history
              /\ events \subseteq events'
              /\ Cardinality(events' \ events) = 1]_vars

\* A message flagged edited whose subject the last request changed, and of
\* which the history holds no row.
C28_Witness ==
    \E m \in messages :
        /\ m.edited
        /\ \E i \in Updated("messages") : m \in ops[i].rows
        /\ Inserted("events") # {}
        /\ m.content = "hi" /\ m.subject # "s1"
        /\ \A h \in history : h.message # m.id

\* C24: of the POST requests to /api/messages/ that come from one IP address
\* within any 60 seconds, at most 5 are let through.
C24_AtMostLimitPerMinute ==
    \A ip \in IPs : \A i \in DOMAIN limiter.passed[ip] :
        Cardinality(PassedWithin(ip, limiter.passed[ip][i])) <= message_limit

\* C26: the count of every tracked IP is between 0 and 5; a POST to
\* /api/messages/ goes on to the increment only when the count of its IP is
\* below 5; a request answered 429 leaves the count of its IP as it was; and a
\* request that is not a POST to /api/messages/ leaves the tracker as it was.
C26_TrackerInvariant ==
    /\ [](\A ip \in DOMAIN limiter.tracker :
             /\ 0 <= limiter.tracker[ip].count
             /\ limiter.tracker[ip].count <= message_limit)
    /\ [][\A w \in DOMAIN limiter.threads :
            LET before == limiter.threads[w]
                after == limiter.threads'[w]
            IN /\ (before.pc = "idle" /\ after.pc = "load") =>
                      limiter.tracker'[after.ip].count < message_limit
               /\ (limiter.served' > limiter.served /\ after.status = "429"
                   /\ after # before) =>
                      /\ after.ip \in DOMAIN limiter.tracker
                      /\ limiter.tracker'[after.ip].count
                           = limiter.tracker[after.ip].count
               /\ (limiter.served' > limiter.served /\ before.pc = "idle"
                   /\ after.pc = "idle" /\ after.status = "200"
                   /\ after # before) =>
                      limiter.tracker' = limiter.tracker
               /\ (limiter.served' > limiter.served
                   /\ limiter.threads' = limiter.threads) =>
                      limiter.tracker' = limiter.tracker]_vars

\* The POSTs of the ip let through in its current window.
PassedInWindow(ip) ==
    {i \in DOMAIN limiter.passed[ip] :
        limiter.passed[ip][i] >= limiter.tracker[ip].reset_time}

\* C27: with requests of one IP served at once, at most 5 POSTs are let
\* through within one window of the tracker, and when no request is on its
\* way the count of the IP is the number of POSTs let through in the window.
C27_NoRaceOnTracker ==
    \A ip \in DOMAIN limiter.tracker :
        /\ Cardinality(PassedInWindow(ip)) <= message_limit
        /\ (\A w \in DOMAIN limiter.threads : limiter.threads[w].pc = "idle") =>
              limiter.tracker[ip].count = Cardinality(PassedInWindow(ip))

RECURSIVE Concatenation(_)
Concatenation(pages) ==
    IF pages = <<>> THEN <<>>
    ELSE Concatenation(SubSeq(pages, 1, Len(pages) - 1)) \o pages[Len(pages)]

\* The least number of pages of page_size rows that hold n rows.
PagesFor(n, page_size) == (n + page_size - 1) \div page_size

\* C30: the generator of lazy_pagination(page_size) queries the offsets 0,
\* page_size, 2 * page_size, ..., one query for each time the consumer has
\* asked for the next page and none ahead of it; no page it yields is empty,
\* and it ends at the first query that returns no row. For page_size >= 1 it
\* never yields more than ceil(n / page_size) pages, and when it has ended it
\* has yielded that many, which put together are the n rows of the table in
\* the table's order.
C30_LazyPagination ==
    LET n == Len(pager.table)
        page_size == pager.page_size
        queries == pager.queries
        yielded == pager.yielded
    IN /\ queries = [i \in 1..Len(queries) |-> (i - 1) * page_size]
       /\ Len(queries) = IF pager.pc = "running" THEN pager.asked - 1 ELSE pager.asked
       /\ Len(yielded) = IF pager.pc \in {"fetched", "done"}
                         THEN Len(queries) - 1 ELSE Len(queries)
       /\ \A i \in DOMAIN yielded :
             /\ yielded[i] # <<>>
             /\ yielded[i] = paginate_users(pager.table, page_size, queries[i])
       /\ pager.pc = "done" =>
             paginate_users(pager.table, page_size, queries[Len(queries)]) = <<>>
       /\ page_size >= 1 =>
             /\ Len(yielded) <= PagesFor(n, page_size)
             /\ pager.pc = "done" =>
                   /\ Len(yielded) = PagesFor(n, page_size)
                   /\ Concatenation(yielded) = pager.table

\* A generator that has ended after two pages, the second one shorter than
\* the first.
C30_Witness ==
    /\ pager.pc = "done"
    /\ Len(pager.yielded) = 2
    /\ Len(pager.yielded[2]) < Len(pager.yielded[1])
    /\ Len(pager.queries) = 3
    /\ pager.asked = 3

====
